---- MODULE Spec2Model ----
(***************************************************************************)
(* Model of vp (vibeprocess): the generic resource allocator, the process  *)
(* lifecycle (start / stop / restart / monitor / discover-and-import) and  *)
(* the supervision tasks, as implemented in resource.go, process.go,       *)
(* api.go and main.go.                                                     *)
(***************************************************************************)
EXTENDS Integers, Sequences, FiniteSets, TLC

\* ------------------------------------------------------------------ bounds
MaxRange == 2
MaxPending == 1

\* -------------------------------------------------------- program constants
TcpPortStart == 3000

Names == {"a", "b"}
TypeNames == {"tcpport", "datadir"}
Pids == {1, 2}
TcpPortEnd == TcpPortStart + MaxRange - 1
MaxAllocs == MaxRange + 2

VARIABLES
    types,      \* state.Types:     name -> ResourceType
    counters,   \* state.Counters:  name -> int (a missing key reads as 0)
    resources,  \* state.Resources: the Resource records (type, value, owner)
    instances,  \* state.Instances: name -> Instance
    procs,      \* the OS process table: pid -> process
    unavail,    \* (type, value) pairs whose check command exits nonzero
    templates,  \* state.Templates: id -> Template
    tasks,      \* detached reaper / watcher goroutines
    last,       \* the operation performed by the latest step and its outcome
    allocLog    \* results of the successive auto-allocations (allocator runs)

vars == <<types, templates, counters, resources, instances, procs, unavail, tasks, last, allocLog>>

\* -------------------------------------------------------------- resource.go

DefaultResourceTypes ==
    [tcpport |-> [name |-> "tcpport", check |-> TRUE,  counter |-> TRUE,
                  start |-> TcpPortStart, end |-> TcpPortEnd],
     datadir |-> [name |-> "datadir", check |-> FALSE, counter |-> FALSE,
                  start |-> 0, end |-> 0]]

\* strconv.Itoa
Itoa(v) == ToString(v)

\* CheckResource: an empty check command means always available; otherwise
\* the shell predicate decides (exit 0 = available).
CheckResource(rt, value, unav) ==
    IF ~rt.check THEN TRUE ELSE <<rt.name, value>> \notin unav

\* The probe loop of AllocateResource: the first v in current..End whose
\* check passes, or End+1 when there is none.
RECURSIVE Probe(_, _, _)
Probe(rt, v, unav) ==
    IF v > rt.end THEN v
    ELSE IF CheckResource(rt, Itoa(v), unav) THEN v
    ELSE Probe(rt, v + 1, unav)

\* AllocateResource accepting an explicit value without running its check.
AllocateResourceUnchecked(tps, ctr, unav, rtype, requestedValue) ==
    IF rtype \notin DOMAIN tps
    THEN [err |-> "UnknownResourceType", value |-> "", ctr |-> ctr]
    ELSE LET rt == tps[rtype] IN
         IF rt.counter /\ requestedValue = ""
         THEN LET current == IF ctr[rtype] = 0 THEN rt.start ELSE ctr[rtype]
                  v == Probe(rt, current, unav)
              IN IF v > rt.end
                 THEN [err |-> "RangeExhausted", value |-> "", ctr |-> ctr]
                 ELSE [err |-> "none", value |-> Itoa(v),
                       ctr |-> [ctr EXCEPT ![rtype] = v + 1]]
         ELSE IF requestedValue = ""
              THEN [err |-> "ValueRequired", value |-> "", ctr |-> ctr]
              ELSE [err |-> "none", value |-> requestedValue, ctr |-> ctr]

\* AllocateResource moving the cursor of a counter type on an explicit value.
AllocateResourceCounting(tps, ctr, unav, rtype, requestedValue) ==
    IF rtype \notin DOMAIN tps
    THEN [err |-> "UnknownResourceType", value |-> "", ctr |-> ctr]
    ELSE LET rt == tps[rtype] IN
         IF rt.counter /\ requestedValue = ""
         THEN LET current == IF ctr[rtype] = 0 THEN rt.start ELSE ctr[rtype]
                  v == Probe(rt, current, unav)
              IN IF v > rt.end
                 THEN [err |-> "RangeExhausted", value |-> "", ctr |-> ctr]
                 ELSE [err |-> "none", value |-> Itoa(v),
                       ctr |-> [ctr EXCEPT ![rtype] = v + 1]]
         ELSE IF requestedValue = ""
              THEN [err |-> "ValueRequired", value |-> "", ctr |-> ctr]
              ELSE IF ~CheckResource(rt, requestedValue, unav)
                   THEN [err |-> "ResourceUnavailable", value |-> "", ctr |-> ctr]
                   ELSE [err |-> "none", value |-> requestedValue,
                         ctr |-> IF rt.counter THEN [ctr EXCEPT ![rtype] = @ + 1] ELSE ctr]

AllocateResource(tps, ctr, unav, rtype, requestedValue) ==
    IF rtype \notin DOMAIN tps
    THEN [err |-> "UnknownResourceType", value |-> "", ctr |-> ctr]
    ELSE LET rt == tps[rtype] IN
         IF rt.counter /\ requestedValue = ""
         THEN LET current == IF ctr[rtype] = 0 THEN rt.start ELSE ctr[rtype]
                  v == Probe(rt, current, unav)
              IN IF v > rt.end
                 THEN [err |-> "RangeExhausted", value |-> "", ctr |-> ctr]
                 ELSE [err |-> "none", value |-> Itoa(v),
                       ctr |-> [ctr EXCEPT ![rtype] = v + 1]]
         ELSE IF requestedValue = ""
              THEN [err |-> "ValueRequired", value |-> "", ctr |-> ctr]
              ELSE IF ~CheckResource(rt, requestedValue, unav)
                   THEN [err |-> "ResourceUnavailable", value |-> "", ctr |-> ctr]
                   ELSE [err |-> "none", value |-> requestedValue, ctr |-> ctr]

\* ----------------------------------------------------------------- state.go

\* state.Resources is keyed by "type:value": claiming a pair that is already
\* recorded replaces the record (and with it the owner).
ClaimResourceAppend(res, rtype, value, owner) ==
    res \cup {[type |-> rtype, value |-> value, owner |-> owner]}

ClaimResource(res, rtype, value, owner) ==
    {r \in res : ~(r.type = rtype /\ r.value = value)}
        \cup {[type |-> rtype, value |-> value, owner |-> owner]}

ReleaseResources(res, owner) == {r \in res : r.owner # owner}

\* --------------------------------------------------------------- process.go

\* A command pattern is a sequence of tokens: literal text, a ${var}
\* reference, or a %counter placeholder.
Lit(s) == [k |-> "lit", s |-> s]
Var(n) == [k |-> "var", s |-> n]
Pct(n) == [k |-> "pct", s |-> n]

NoVars == [x \in {} |-> ""]

\* The templates a configuration may hold.
KnownTemplates ==
    [web  |-> [command |-> <<Lit("serve"), Var("tcpport"), Var("datadir")>>,
               resources |-> <<"tcpport", "datadir">>, vars |-> NoVars],
     job  |-> [command |-> <<Lit("run"), Pct("tcpport")>>,
               resources |-> <<"tcpport">>, vars |-> NoVars],
     gpu  |-> [command |-> <<Lit("train"), Pct("gpu")>>,
               resources |-> <<"datadir">>, vars |-> [datadir |-> "/d"]],
     none |-> [command |-> <<Var("datadir")>>,
               resources |-> <<"tcpport">>, vars |-> [datadir |-> ""]],
     dir  |-> [command |-> <<Lit("run"), Pct("tcpport"), Pct("datadir")>>,
               resources |-> <<>>, vars |-> NoVars]]

\* The template tables a run starts from.
TemplateSets == {{"web"}, {"job"}, {"gpu"}, {"none"}}

\* The --key=value variables a caller may pass to Start.
VarChoices ==
    {NoVars, [datadir |-> "/d"], [tcpport |-> Itoa(TcpPortStart), datadir |-> "/d"]}

\* Reading a Go map: a missing key yields the zero value.
Get(m, k) == IF k \in DOMAIN m THEN m[k] ELSE ""

\* template defaults overridden by the caller's variables
MergeVars(defaults, given) == given @@ defaults

\* The error branch of an allocation in StartProcess: roll back every
\* resource claimed for this name and return the error.
AllocFailedNoRelease(att, name, err) ==
    [att EXCEPT !.err = err, !.status = "error"]

AllocFailed(att, name, err) ==
    [att EXCEPT !.res = ReleaseResources(att.res, name),
                !.err = err, !.status = "error"]

\* The success branch: record the value on the instance, claim it, and make
\* it available for interpolation.
Allocated(att, name, rtype, a) ==
    [att EXCEPT !.ctr = a.ctr,
                !.ires = (rtype :> a.value) @@ att.ires,
                !.res = ClaimResource(att.res, rtype, a.value, name),
                !.claimed = Append(att.claimed, <<rtype, a.value>>)]

\* Phase 1: allocate the resources the template declares, in order.
RECURSIVE Phase1(_, _, _, _, _)
Phase1(att, tps, unav, name, rs) ==
    IF rs = <<>> THEN att
    ELSE LET rtype == Head(rs)
             a == AllocateResource(tps, att.ctr, unav, rtype, Get(att.vars, rtype))
         IN IF a.err # "none"
            THEN [AllocFailed(att, name, a.err) EXCEPT !.step = Len(att.claimed) + 1]
            ELSE Phase1([Allocated(att, name, rtype, a) EXCEPT
                             !.vars = (rtype :> a.value) @@ att.vars],
                        tps, unav, name, Tail(rs))

\* Phase 2a: replace every ${key} whose key is a known variable.
SubstVars(cmd, fv) ==
    [i \in DOMAIN cmd |->
        IF cmd[i].k = "var" /\ cmd[i].s \in DOMAIN fv
        THEN Lit(fv[cmd[i].s]) ELSE cmd[i]]

FirstPct(cmd) ==
    IF \E i \in DOMAIN cmd : cmd[i].k = "pct"
    THEN CHOOSE i \in DOMAIN cmd :
            cmd[i].k = "pct" /\ \A j \in 1..(i - 1) : cmd[j].k # "pct"
    ELSE 0

ReplacePct(cmd, counter, value) ==
    [i \in DOMAIN cmd |->
        IF cmd[i].k = "pct" /\ cmd[i].s = counter THEN Lit(value) ELSE cmd[i]]

\* Phase 2b: resolve the %counter placeholders one after the other.
RECURSIVE Phase2(_, _, _, _)
Phase2(att, tps, unav, name) ==
    LET i == FirstPct(att.cmd) IN
    IF i = 0 THEN att
    ELSE LET counter == att.cmd[i].s
             a == AllocateResource(tps, att.ctr, unav, counter, "")
         IN IF a.err # "none"
            THEN AllocFailed(att, name, a.err)
            ELSE Phase2([Allocated(att, name, counter, a) EXCEPT
                             !.cmd = ReplacePct(att.cmd, counter, a.value)],
                        tps, unav, name)

\* The text of a token of the interpolated command (an unresolved ${x}
\* stays in the command as it is).
TokenText(tok) == IF tok.k = "lit" THEN tok.s ELSE "${" \o tok.s \o "}"

\* strings.Fields: the non-empty words of the command.
RECURSIVE Fields(_)
Fields(cmd) ==
    IF cmd = <<>> THEN <<>>
    ELSE IF TokenText(Head(cmd)) = "" THEN Fields(Tail(cmd))
         ELSE <<TokenText(Head(cmd))>> \o Fields(Tail(cmd))

\* ------------------------------------------------- the OS (process table)

NoProc ==
    [alive |-> FALSE, leader |-> FALSE, perm |-> FALSE, owner |-> "", port |-> 0,
     cmd |-> <<>>, ancestors |-> <<>>]

FreePids(ps) == {p \in Pids : ~ps[p].alive}

\* A signal to one process is delivered when it exists and we may signal it.
SignalOk(ps, pid) == pid \in Pids /\ ps[pid].alive /\ ps[pid].perm

\* kill(-pgid, sig) is delivered when pgid names a process group, that is
\* when the process leads its own group.
GroupKillOk(ps, pgid) == SignalOk(ps, pgid) /\ ps[pgid].leader

\* IsProcessRunning: signal 0 succeeds.
IsProcessRunning(ps, pid) == SignalOk(ps, pid)

\* canManageProcess: signal 0 succeeds.
canManageProcess(ps, pid) == SignalOk(ps, pid)

ProcExit(ps, pid) == [ps EXCEPT ![pid] = NoProc]

\* exec.Cmd.Start with Setpgid: the child leads a new process group.
Spawn(ps, pid, name, cmd) ==
    [ps EXCEPT ![pid] = [alive |-> TRUE, leader |-> TRUE, perm |-> TRUE,
                         owner |-> name, port |-> 0, cmd |-> cmd,
                         ancestors |-> <<<<"vp">>, <<"init">>>>]]

\* proc.Wait() in a reaper returns once its child has exited.
MarkExited(ts, ps) ==
    {IF t.kind = "reaper" /\ ~ps[t.pid].alive THEN [t EXCEPT !.exited = TRUE] ELSE t
        : t \in ts}

\* The number of reapers whose child has exited and that have not run yet.
Pending(ts) == Cardinality({t \in ts : t.exited})

Reaper(name, pid) == [kind |-> "reaper", name |-> name, pid |-> pid, exited |-> FALSE]
Watcher(name, pid) == [kind |-> "watcher", name |-> name, pid |-> pid, exited |-> FALSE]

\* ------------------------------------------------------ outcome of a step

NoLast ==
    [op |-> "none", name |-> "", err |-> "none", step |-> 0, claimed |-> <<>>,
     prePid |-> 0, pid |-> 0, status |-> "", managed |-> FALSE, template |-> "",
     signals |-> {}, value |-> "", type |-> "", req |-> "", cursor |-> 0,
     given |-> <<>>, spawned |-> <<>>, binds |-> <<>>, flipped |-> {},
     trail |-> <<>>, info |-> <<>>, stop |-> <<>>, launch |-> 0,
     pids |-> {}, port |-> 0, saved |-> FALSE]

\* saved: the operation has called state.Save() after its last change of
\* the state.
\* No response is being returned: the next operation may begin.
Idle == last.op = "none"

\* The caller takes the response of the latest operation.
Respond ==
    /\ ~Idle
    /\ last' = NoLast
    /\ UNCHANGED <<types, templates, counters, resources, instances, procs, unavail,
                   tasks, allocLog>>

\* ------------------------------------------------------------ StartProcess

NewInstance(name, tid) ==
    [template |-> tid, command |-> <<>>, pid |-> 0, status |-> "starting",
     resources |-> NoVars, managed |-> FALSE, discovered |-> FALSE, error |-> ""]

\* Phase 2: interpolate the command, unless Phase 1 has failed.
Interpolate(att, template, tps, unav, name) ==
    IF att.err = "none"
    THEN Phase2([att EXCEPT !.cmd = SubstVars(template.command, att.vars)],
                tps, unav, name)
    ELSE att

\* Phase 3: an empty command is an error.
CheckCommand(att, name) ==
    IF att.err = "none" /\ Fields(att.cmd) = <<>>
    THEN AllocFailed(att, name, "EmptyCommand") ELSE att

\* Phase 3: exec.Cmd.Start; p = 0 stands for a failing start.
SpawnOutcome(att, name, p) ==
    IF att.err = "none" /\ p = 0
    THEN AllocFailed(att, name, "SpawnFailed") ELSE att

\* Everything StartProcess does after the duplicate-name check, up to and
\* including the spawn.
StartAttempt(tid, name, given, p) ==
    SpawnOutcome(
        CheckCommand(
            Interpolate(
                Phase1([res |-> resources, ctr |-> counters, ires |-> NoVars,
                        vars |-> MergeVars(templates[tid].vars, given), cmd |-> <<>>,
                        err |-> "none", status |-> "starting", claimed |-> <<>>,
                        step |-> 0],
                       types, unavail, name, templates[tid].resources),
                templates[tid], types, unavail, name),
            name),
        name, p)

\* The instance record StartProcess returns.
StartedInstance(tid, name, p, att) ==
    [NewInstance(name, tid) EXCEPT
        !.resources = att.ires,
        !.status = IF att.err = "none" THEN "running" ELSE att.status,
        !.error = IF att.err = "none" THEN "" ELSE att.err,
        !.command = IF att.err \in {"none", "SpawnFailed"} THEN Fields(att.cmd) ELSE <<>>,
        !.pid = IF att.err = "none" THEN p ELSE 0,
        !.managed = (att.err = "none")]

\* The effect of StartProcess on the state, given the outcome of the attempt
\* and the record it returns: the record is stored only after a spawn.
StartCommit(tid, name, given, p, att, inst) ==
    /\ resources' = att.res
    /\ counters' = att.ctr
    /\ IF att.err = "none"
       THEN /\ instances' = (name :> inst) @@ instances
            /\ procs' = Spawn(procs, p, name, inst.command)
            /\ tasks' = tasks \cup {Reaper(name, p)}
       ELSE UNCHANGED <<instances, procs, tasks>>
    /\ last' = [NoLast EXCEPT !.op = "start", !.name = name, !.err = att.err,
                              !.step = att.step, !.claimed = att.claimed,
                              !.pid = inst.pid, !.status = inst.status,
                              !.managed = inst.managed, !.template = tid,
                              !.given = given,
                              !.spawned = IF att.err = "none" THEN inst.command ELSE <<>>,
                              !.trail = <<"starting", inst.status>>,
                              !.saved = (att.err = "none")]
    /\ UNCHANGED <<types, templates, unavail, allocLog>>

StartOutcome(tid, name, given, p, att) ==
    StartCommit(tid, name, given, p, att, StartedInstance(tid, name, p, att))

StartProcess(tid, name, given, p) ==
    Idle /\
    IF name \in DOMAIN instances
    THEN /\ last' = [NoLast EXCEPT !.op = "start", !.name = name,
                                   !.err = "DuplicateInstanceName"]
         /\ UNCHANGED <<types, templates, counters, resources, instances, procs, unavail,
                        tasks, allocLog>>
    ELSE StartOutcome(tid, name, given, p, StartAttempt(tid, name, given, p))

\* ------------------------------------------------------------- StopProcess

Sig(sig, target, delivered) == [sig |-> sig, target |-> target, delivered |-> delivered]

\* Force kill if still running: SIGKILL to the process group.
ForceKillNever(ps, pgid) == FALSE

\* SIGKILL whatever the poll has seen.
ForceKillAlways(ps, pgid) == TRUE

ForceKill(ps, pgid) == IsProcessRunning(ps, pgid)

\* The wait for graceful shutdown: one liveness sample every 100 ms.
PollLimit == 20

\* process.Wait() at the end of StopProcess returns at once for a process
\* that is not a child of this one, and for a child once it has exited.
WaitBlocks(ps, pid) == ps[pid].alive /\ ps[pid].owner # ""

\* What StopProcess did, in order: the signals it sent, the samples its
\* poll took (a process that goes away in the window is gone at the first
\* sample), whether the process still answered after the poll, and whether
\* the final wait can return.
StopCourse(groupTerm, kill, running, blocks) ==
    [sent |-> <<"TERM">> \o (IF groupTerm THEN <<>> ELSE <<"TERM">>)
                        \o (IF kill THEN <<"KILL">> ELSE <<>>),
     samples |-> IF running THEN PollLimit ELSE 1,
     running |-> running,
     blocked |-> blocks]

\* StopProcess on an instance with a PID; exits tells whether the process
\* exits within the polling window once SIGTERM reached it.
StopProcess(inst, ps, exits) ==
    IF inst.pid = 0
    THEN [err |-> "NotRunning", inst |-> inst, procs |-> ps, signals |-> {},
          course |-> <<>>]
    ELSE LET pgid == inst.pid
             groupTerm == GroupKillOk(ps, pgid)
             singleTerm == ~groupTerm /\ SignalOk(ps, inst.pid)
             ps1 == IF (groupTerm \/ singleTerm) /\ exits THEN ProcExit(ps, inst.pid) ELSE ps
             kill == ForceKill(ps1, inst.pid)
             killed == kill /\ GroupKillOk(ps1, pgid)
             ps2 == IF killed THEN ProcExit(ps1, pgid) ELSE ps1
         IN [err |-> "none",
             inst |-> [inst EXCEPT !.status = "stopped", !.pid = 0],
             procs |-> ps2,
             signals |-> {Sig("TERM", "group", groupTerm)}
                           \cup (IF groupTerm THEN {} ELSE {Sig("TERM", "pid", singleTerm)})
                           \cup (IF kill THEN {Sig("KILL", "group", killed)} ELSE {}),
             course |-> StopCourse(groupTerm, kill, IsProcessRunning(ps1, inst.pid),
                                   WaitBlocks(ps2, inst.pid))]

Remove(insts, name) == [n \in DOMAIN insts \ {name} |-> insts[n]]

\* handleStop (CLI) and the "stop" action of handleInstances (API).
handleStop(name, exits) ==
    Idle /\
    IF name \notin DOMAIN instances
    THEN /\ last' = [NoLast EXCEPT !.op = "stop", !.name = name, !.err = "InstanceNotFound"]
         /\ UNCHANGED <<types, templates, counters, resources, instances, procs, unavail,
                        tasks, allocLog>>
    ELSE LET inst == instances[name]
             r == StopProcess(inst, procs, exits)
         IN /\ last' = [NoLast EXCEPT !.op = "stop", !.name = name, !.err = r.err,
                                      !.prePid = inst.pid, !.pid = r.inst.pid,
                                      !.status = r.inst.status,
                                      !.managed = inst.managed,
                                      !.template = inst.template,
                                      !.signals = r.signals,
                                      !.stop = r.course,
                                      !.saved = (r.err = "none"),
                                      !.trail = IF r.err = "none"
                                                THEN <<inst.status, "stopping", "stopped">>
                                                ELSE <<>>]
            /\ procs' = r.procs
            /\ tasks' = MarkExited(tasks, r.procs)
            /\ Pending(tasks') <= MaxPending
            /\ IF r.err = "none"
               THEN /\ resources' = ReleaseResources(resources, name)
                    /\ instances' = Remove(instances, name)
               ELSE UNCHANGED <<resources, instances>>
            /\ UNCHANGED <<types, templates, counters, unavail, allocLog>>

\* ---------------------------------------------------------- RestartProcess

Perms(S) == {f \in [1..Cardinality(S) -> S] : \A x \in S : \E i \in DOMAIN f : f[i] = x}

\* Check if resource value is available (the guard before re-claiming).
StillAvailableAlways(rt, value, unav) == TRUE

StillAvailable(rt, value, unav) == CheckResource(rt, value, unav)

\* Try to re-claim the same resources, in the map's iteration order.
RECURSIVE Reclaim(_, _, _, _, _, _)
Reclaim(res, tps, unav, name, ires, order) ==
    IF order = <<>> THEN [err |-> "none", res |-> res]
    ELSE LET rtype == Head(order) IN
         IF rtype \notin DOMAIN tps
         THEN [err |-> "UnknownResourceType", res |-> res]
         ELSE IF ~StillAvailable(tps[rtype], ires[rtype], unav)
              THEN [err |-> "ResourceUnavailable", res |-> res]
              ELSE Reclaim(ClaimResource(res, rtype, ires[rtype], name),
                           tps, unav, name, ires, Tail(order))

\* The command Restart runs, looked up through the instance's template.
RestartCommandFromTemplate(inst, tmpls) ==
    IF inst.template \in DOMAIN tmpls THEN inst.command ELSE <<>>

\* The command Restart runs: the words of the stored command string.
RestartCommand(inst, tmpls) == inst.command

\* The guard of Restart taking an instance in status error as well.
NotStoppedNorError(inst) == inst.status \notin {"stopped", "error"}

\* Instance must be stopped.
NotStopped(inst) == inst.status # "stopped"

RestartProcess(name, p) ==
    /\ Idle
    /\ name \in DOMAIN instances
    /\ \E order \in Perms(DOMAIN instances[name].resources) :
       LET inst == instances[name]
           rc == Reclaim(resources, types, unavail, name, inst.resources, order)
           base == [NoLast EXCEPT !.op = "restart", !.name = name, !.prePid = inst.pid,
                                  !.managed = inst.managed, !.template = inst.template]
       IN IF NotStopped(inst)
          THEN /\ last' = [base EXCEPT !.err = "NotStopped", !.status = inst.status,
                                       !.pid = inst.pid]
               /\ UNCHANGED <<resources, instances, procs, tasks>>
          ELSE IF rc.err # "none"
          THEN /\ last' = [base EXCEPT !.err = rc.err, !.status = inst.status,
                                       !.pid = inst.pid]
               /\ resources' = rc.res
               /\ UNCHANGED <<instances, procs, tasks>>
          ELSE IF RestartCommand(inst, templates) = <<>>
          THEN /\ last' = [base EXCEPT !.err = "EmptyCommand", !.status = inst.status,
                                       !.pid = inst.pid]
               /\ resources' = ReleaseResources(rc.res, name)
               /\ UNCHANGED <<instances, procs, tasks>>
          ELSE IF p = 0
          THEN /\ last' = [base EXCEPT !.err = "SpawnFailed", !.status = "error",
                                       !.saved = TRUE]
               /\ resources' = ReleaseResources(rc.res, name)
               /\ instances' = [instances EXCEPT ![name].status = "error",
                                                 ![name].error = "SpawnFailed"]
               /\ UNCHANGED <<procs, tasks>>
          ELSE /\ last' = [base EXCEPT !.status = "running", !.pid = p, !.saved = TRUE,
                                       !.spawned = RestartCommand(inst, templates)]
               /\ resources' = rc.res
               /\ instances' = [instances EXCEPT ![name].pid = p,
                                                 ![name].status = "running",
                                                 ![name].error = ""]
               /\ procs' = Spawn(procs, p, name, RestartCommand(inst, templates))
               /\ tasks' = tasks \cup {Reaper(name, p)}
    /\ UNCHANGED <<types, templates, counters, unavail, allocLog>>

\* ---------------------------------------------------------- MonitorProcess

MonitorProcess(pid, name) ==
    LET base == [NoLast EXCEPT !.op = "monitor", !.name = name, !.prePid = pid] IN
    /\ Idle
    /\ UNCHANGED <<types, templates, counters, procs, unavail, allocLog>>
    /\ IF name \in DOMAIN instances
       THEN /\ last' = [base EXCEPT !.err = "DuplicateInstanceName"]
            /\ UNCHANGED <<resources, instances, tasks>>
       ELSE IF ~IsProcessRunning(procs, pid)
       THEN /\ last' = [base EXCEPT !.err = "NotRunning"]
            /\ UNCHANGED <<resources, instances, tasks>>
       ELSE IF procs[pid].cmd = <<>>
       THEN /\ last' = [base EXCEPT !.err = "CannotRead"]
            /\ UNCHANGED <<resources, instances, tasks>>
       ELSE LET ires == IF procs[pid].port # 0
                        THEN [tcpport |-> Itoa(procs[pid].port)] ELSE NoVars
                inst == [template |-> "", command |-> procs[pid].cmd, pid |-> pid,
                         status |-> "running", resources |-> ires,
                         managed |-> canManageProcess(procs, pid),
                         discovered |-> FALSE, error |-> ""]
            IN /\ resources' = IF "tcpport" \in DOMAIN ires
                               THEN ClaimResource(resources, "tcpport", ires["tcpport"], name)
                               ELSE resources
               /\ instances' = (name :> inst) @@ instances
               /\ tasks' = tasks \cup {Watcher(name, pid)}
               /\ last' = [base EXCEPT !.pid = pid, !.status = inst.status, !.saved = TRUE,
                                       !.managed = inst.managed]

\* ------------------------------------------------ DiscoverAndImportProcess

Discovered(pid, ires) ==
    [template |-> "discovered", command |-> procs[pid].cmd, pid |-> pid,
     status |-> "running", resources |-> ires, managed |-> FALSE,
     discovered |-> TRUE, error |-> ""]

\* DiscoverAndImportProcess without the check for an existing name.
DiscoverAndImportProcessOverwrite(pid, name) ==
    LET base == [NoLast EXCEPT !.op = "discover", !.name = name] IN
    /\ Idle
    /\ UNCHANGED <<types, templates, counters, resources, procs, unavail, tasks, allocLog>>
    /\ IF ~procs[pid].alive
       THEN /\ last' = [base EXCEPT !.err = "NotFound"]
            /\ UNCHANGED instances
       ELSE /\ instances' = (name :> Discovered(pid, NoVars)) @@ instances
            /\ last' = [base EXCEPT !.pid = pid, !.status = "running", !.saved = TRUE]

DiscoverAndImportProcess(pid, name) ==
    LET base == [NoLast EXCEPT !.op = "discover", !.name = name] IN
    /\ Idle
    /\ UNCHANGED <<types, templates, counters, resources, procs, unavail, tasks, allocLog>>
    /\ IF name \in DOMAIN instances
       THEN /\ last' = [base EXCEPT !.err = "DuplicateInstanceName"]
            /\ UNCHANGED instances
       ELSE IF ~procs[pid].alive
       THEN /\ last' = [base EXCEPT !.err = "NotFound"]
            /\ UNCHANGED instances
       ELSE /\ instances' = (name :> Discovered(pid, NoVars)) @@ instances
            /\ last' = [base EXCEPT !.pid = pid, !.status = "running", !.saved = TRUE]

DiscoverAndImportProcessOnPort(port, name) ==
    LET base == [NoLast EXCEPT !.op = "discover-port", !.name = name]
        pids == {q \in Pids : procs[q].alive /\ procs[q].port = port}
    IN
    /\ Idle
    /\ UNCHANGED <<types, templates, counters, resources, procs, unavail, tasks, allocLog>>
    /\ IF name \in DOMAIN instances
       THEN /\ last' = [base EXCEPT !.err = "DuplicateInstanceName"]
            /\ UNCHANGED instances
       ELSE IF pids = {}
       THEN /\ last' = [base EXCEPT !.err = "NotFound"]
            /\ UNCHANGED instances
       ELSE \E pid \in pids :
            /\ instances' = (name :> Discovered(pid, [tcpport |-> Itoa(port)])) @@ instances
            /\ last' = [base EXCEPT !.pid = pid, !.status = "running", !.saved = TRUE]

\* ------------------------------------ listInstances / GET /api/instances

\* A running record whose process does not answer signal 0.
Stale(insts, ps) ==
    {n \in DOMAIN insts : insts[n].status = "running"
                            /\ ~IsProcessRunning(ps, insts[n].pid)}

\* The read without the reconciliation of stale records.
listInstancesAsStored ==
    /\ Idle
    /\ last' = [NoLast EXCEPT !.op = "list"]
    /\ UNCHANGED <<types, templates, counters, resources, instances, procs, unavail,
                   tasks, allocLog>>

listInstances ==
    /\ Idle
    /\ instances' = [n \in DOMAIN instances |->
                        IF n \in Stale(instances, procs)
                        THEN [instances[n] EXCEPT !.status = "stopped", !.pid = 0]
                        ELSE instances[n]]
    /\ last' = [NoLast EXCEPT !.op = "list", !.flipped = Stale(instances, procs)]
    /\ UNCHANGED <<types, templates, counters, resources, procs, unavail, tasks, allocLog>>

\* ------------------------------------------------------- supervision tasks

\* The body both goroutines run once their process is gone.
\* The body without the comparison of PIDs.
FlipIfExists(insts, name, pid) ==
    IF name \in DOMAIN insts
    THEN [insts EXCEPT ![name].status = "stopped", ![name].pid = 0]
    ELSE insts

FlipIfSame(insts, name, pid) ==
    IF name \in DOMAIN insts /\ insts[name].pid = pid
    THEN [insts EXCEPT ![name].status = "stopped", ![name].pid = 0]
    ELSE insts

\* The reaper goroutine of StartProcess / RestartProcess after proc.Wait().
ReaperRun(t) ==
    /\ Idle
    /\ t \in tasks /\ t.kind = "reaper" /\ t.exited
    /\ instances' = FlipIfSame(instances, t.name, t.pid)
    /\ tasks' = tasks \ {t}
    /\ last' = [NoLast EXCEPT !.op = "reap", !.name = t.name, !.prePid = t.pid,
                              !.flipped = IF instances' = instances THEN {} ELSE {t.name},
                              !.saved = (instances' # instances)]
    /\ UNCHANGED <<types, templates, counters, resources, procs, unavail, allocLog>>

\* One poll of the watcher goroutine of MonitorProcess that finds the
\* process gone (a poll that finds it running changes nothing).
WatcherRun(t) ==
    /\ Idle
    /\ t \in tasks /\ t.kind = "watcher"
    /\ ~IsProcessRunning(procs, t.pid)
    /\ instances' = FlipIfSame(instances, t.name, t.pid)
    /\ tasks' = tasks \ {t}
    /\ last' = NoLast
    /\ UNCHANGED <<types, templates, counters, resources, procs, unavail, allocLog>>

\* ---------------------------------------------------------- the environment

\* A process exits on its own.
ProcessExit(pid) ==
    /\ Idle
    /\ procs[pid].alive
    /\ procs' = ProcExit(procs, pid)
    /\ tasks' = MarkExited(tasks, procs')
    /\ Pending(tasks') <= MaxPending
    /\ last' = NoLast
    /\ UNCHANGED <<types, templates, counters, resources, instances, unavail, allocLog>>

\* The kinds of process started outside the tool: a server listening on a
\* port inside its launcher's process group, a group leader without a
\* port, and a process of another user, which we may not signal.
ExternalKinds ==
    {[alive |-> TRUE, leader |-> FALSE, perm |-> TRUE,  owner |-> "", port |-> TcpPortStart,
      cmd |-> <<"ext">>, ancestors |-> <<<<"init">>>>],
     [alive |-> TRUE, leader |-> TRUE,  perm |-> TRUE,  owner |-> "", port |-> 0,
      cmd |-> <<"ext">>, ancestors |-> <<<<"init">>>>],
     [alive |-> TRUE, leader |-> FALSE, perm |-> FALSE, owner |-> "", port |-> TcpPortStart,
      cmd |-> <<"ext">>, ancestors |-> <<<<"init">>>>]}

\* A process is started outside the tool.
ExternalSpawn(pid, kind) ==
    /\ Idle
    /\ ~procs[pid].alive
    /\ procs' = [procs EXCEPT ![pid] = kind]
    /\ last' = NoLast
    /\ UNCHANGED <<types, templates, counters, resources, instances, unavail, tasks, allocLog>>

\* The outcome of a check command changes (a port gets bound or freed).
EnvChange(tv) ==
    /\ Idle
    /\ unavail' = IF tv \in unavail THEN unavail \ {tv} ELSE unavail \cup {tv}
    /\ last' = NoLast
    /\ UNCHANGED <<types, templates, counters, resources, instances, procs, tasks, allocLog>>

\* ------------------------------------------------------------ specification

Init ==
    /\ types = DefaultResourceTypes
    /\ templates \in {[t \in S |-> KnownTemplates[t]] : S \in TemplateSets}
    /\ counters = [t \in TypeNames |-> 0]
    /\ resources = {}
    /\ instances = [n \in {} |-> 0]
    /\ procs = [p \in Pids |-> NoProc]
    /\ unavail = {}
    /\ tasks = {}
    /\ last = NoLast
    /\ allocLog = <<>>

\* The lifecycle of spawned instances.
Next ==
    \/ \E tid \in DOMAIN templates, name \in Names, given \in VarChoices,
          p \in {0} \cup FreePids(procs) : StartProcess(tid, name, given, p)
    \/ \E name \in Names, exits \in BOOLEAN : handleStop(name, exits)
    \/ \E name \in Names, p \in {0} \cup FreePids(procs) : RestartProcess(name, p)
    \/ listInstances
    \/ \E t \in tasks : ReaperRun(t)
    \/ \E pid \in Pids : ProcessExit(pid)
    \/ EnvChange(<<"tcpport", Itoa(TcpPortStart)>>)
    \/ Respond

Spec == Init /\ [][Next]_vars

\* The adoption of processes started outside the tool.
AdoptNext ==
    \/ \E pid \in Pids, name \in Names : MonitorProcess(pid, name)
    \/ \E pid \in Pids, name \in Names : DiscoverAndImportProcess(pid, name)
    \/ \E name \in Names : DiscoverAndImportProcessOnPort(TcpPortStart, name)
    \/ \E name \in Names, exits \in BOOLEAN : handleStop(name, exits)
    \/ listInstances
    \/ \E t \in tasks : WatcherRun(t)
    \/ \E pid \in Pids : ProcessExit(pid)
    \/ \E pid \in Pids, kind \in ExternalKinds : ExternalSpawn(pid, kind)
    \/ Respond

\* The template table plays no part in adoption.
AdoptInit == Init /\ DOMAIN templates = {"job"}

AdoptSpec == AdoptInit /\ [][AdoptNext]_vars

\* Every operation that claims or releases resources, side by side: the
\* children are spawned with PID 1, the external server runs with PID 2.
ClaimInit == Init /\ DOMAIN templates = {"job"}

ClaimNext ==
    \/ \E tid \in DOMAIN templates, name \in Names, given \in VarChoices,
          p \in {0} \cup (FreePids(procs) \ {2}) : StartProcess(tid, name, given, p)
    \/ \E name \in Names, exits \in BOOLEAN : handleStop(name, exits)
    \/ \E name \in Names, p \in {0} \cup (FreePids(procs) \ {2}) : RestartProcess(name, p)
    \/ \E pid \in Pids, name \in Names : MonitorProcess(pid, name)
    \/ \E t \in tasks : ReaperRun(t)
    \/ \E t \in tasks : WatcherRun(t)
    \/ \E pid \in Pids : ProcessExit(pid)
    \/ \E kind \in {k \in ExternalKinds : k.perm /\ k.port # 0} : ExternalSpawn(2, kind)
    \/ Respond

ClaimSpec == ClaimInit /\ [][ClaimNext]_vars

\* ------------------------------------------- placeholders of the command
\* The template tables of a run about %counter placeholders.
PlaceholderSets == {{"job"}, {"gpu"}, {"none"}, {"dir"}}

PlaceholderInit ==
    /\ types = DefaultResourceTypes
    /\ templates \in {[t \in S |-> KnownTemplates[t]] : S \in PlaceholderSets}
    /\ counters = [t \in TypeNames |-> 0]
    /\ resources = {}
    /\ instances = [n \in {} |-> 0]
    /\ procs = [p \in Pids |-> NoProc]
    /\ unavail = {}
    /\ tasks = {}
    /\ last = NoLast
    /\ allocLog = <<>>

PlaceholderNext ==
    \/ \E tid \in DOMAIN templates, name \in Names, given \in VarChoices,
          p \in {0} \cup FreePids(procs) : StartProcess(tid, name, given, p)
    \/ \E name \in Names, exits \in BOOLEAN : handleStop(name, exits)
    \/ EnvChange(<<"tcpport", Itoa(TcpPortStart)>>)
    \/ Respond

PlaceholderSpec == PlaceholderInit /\ [][PlaceholderNext]_vars

\* ------------------------------------------------- the allocator on its own

\* ------------------------------------------------- MatchAndUpdateInstances

\* strings.Contains, on commands taken as sequences of words.
Contains(str, sub) ==
    \E i \in 0..(Len(str) - Len(sub)) : SubSeq(str, i + 1, i + Len(sub)) = sub

\* DiscoverProcesses: the PIDs under /proc that no instance is bound to.
DiscoverProcesses(insts, ps) ==
    {pid \in Pids : ps[pid].alive /\ \A n \in DOMAIN insts : insts[n].pid # pid}

\* The resources map built for a discovered process: its first port.
ProcResources(ps, pid) ==
    IF ps[pid].port # 0 THEN [tcpport |-> Itoa(ps[pid].port)] ELSE NoVars

\* Any process matches on resources.
ResourcesMatchAlways(ires, pres) == TRUE

\* Check if any resource matches (a missing key reads as the empty string).
ResourcesMatch(ires, pres) ==
    /\ DOMAIN ires # {}
    /\ DOMAIN pres # {}
    /\ \E rtype \in DOMAIN ires : Get(pres, rtype) = ires[rtype]

\* The command lines of the process and of its parent chain, up to init.
CommandsToCheck(ps, pid) == <<ps[pid].cmd>> \o ps[pid].ancestors

CommandMatches(command, cmds) ==
    \E k \in DOMAIN cmds : Contains(cmds[k], command) \/ Contains(command, cmds[k])

\* No instance is skipped.
AlreadyRunningNever(inst, ps) == FALSE

\* Skip instances that are already running.
AlreadyRunning(inst, ps) == inst.status = "running" /\ IsProcessRunning(ps, inst.pid)

\* Whether the scan for one discovered process stops at this instance.
Matches(inst, ps, pid) ==
    /\ ~AlreadyRunning(inst, ps)
    /\ ResourcesMatch(inst.resources, ProcResources(ps, pid))
    /\ CommandMatches(inst.command, CommandsToCheck(ps, pid))

\* The inner loop: the instances in the map's iteration order, up to the
\* first match.
RECURSIVE MatchOne(_, _, _, _)
MatchOne(insts, ps, pid, iorder) ==
    IF iorder = <<>> THEN [insts |-> insts, bound |-> <<>>]
    ELSE IF Matches(insts[Head(iorder)], ps, pid)
         THEN [insts |-> [insts EXCEPT ![Head(iorder)].pid = pid,
                                       ![Head(iorder)].status = "running"],
               bound |-> <<<<Head(iorder), pid>>>>]
         ELSE MatchOne(insts, ps, pid, Tail(iorder))

\* One step of the outer loop, given the outcome for the process at hand;
\* a process in gone exits once the loop has dealt with it.
RECURSIVE MatchAll(_, _, _, _, _, _)
MatchNext(r, ps, porder, iorders, gone, binds) ==
    MatchAll(r.insts,
             IF Head(porder) \in gone THEN ProcExit(ps, Head(porder)) ELSE ps,
             Tail(porder), iorders, gone, binds \o r.bound)

\* The outer loop over the discovered processes, in /proc order; iorders
\* gives the map order met for each of them.
MatchAll(insts, ps, porder, iorders, gone, binds) ==
    IF porder = <<>> THEN [insts |-> insts, procs |-> ps, binds |-> binds]
    ELSE MatchNext(MatchOne(insts, ps, Head(porder), iorders[Head(porder)]),
                   ps, porder, iorders, gone, binds)

MatchCommit(r) ==
    /\ instances' = r.insts
    /\ procs' = r.procs
    /\ tasks' = MarkExited(tasks, r.procs)
    /\ Pending(tasks') <= MaxPending
    /\ last' = [NoLast EXCEPT !.op = "reconcile", !.binds = r.binds,
                              !.saved = (r.binds # <<>>)]
    /\ UNCHANGED <<types, templates, counters, resources, unavail, allocLog>>

MatchAndUpdateInstances ==
    /\ Idle
    /\ \E porder \in Perms(DiscoverProcesses(instances, procs)),
          iorders \in [Pids -> Perms(DOMAIN instances)],
          gone \in SUBSET DiscoverProcesses(instances, procs) :
          MatchCommit(MatchAll(instances, procs, porder, iorders, gone, <<>>))

\* A stopped instance left behind by a monitored process, and processes
\* started outside the tool that may take its place.
ReconcileNext ==
    \/ \E pid \in Pids, name \in Names : MonitorProcess(pid, name)
    \/ \E t \in tasks : WatcherRun(t)
    \/ \E pid \in Pids : ProcessExit(pid)
    \/ \E pid \in Pids, kind \in ExternalKinds : ExternalSpawn(pid, kind)
    \/ MatchAndUpdateInstances
    \/ listInstances
    \/ Respond

ReconcileSpec == ClaimInit /\ [][ReconcileNext]_vars

\* Processes that take the port of a stopped instance: with its command
\* line, with another one, with none (a cleared argv, or a cmdline that
\* could not be read), and with an ancestor that has none (a kernel thread).
RebindKinds ==
    {[alive |-> TRUE, leader |-> FALSE, perm |-> TRUE, owner |-> "",
      port |-> TcpPortStart, cmd |-> c, ancestors |-> <<<<"init">>>>]
        : c \in {<<"ext">>, <<"other">>, <<>>}}
    \cup {[alive |-> TRUE, leader |-> FALSE, perm |-> TRUE, owner |-> "",
           port |-> 0, cmd |-> <<"ext">>, ancestors |-> <<<<"init">>>>],
          [alive |-> TRUE, leader |-> FALSE, perm |-> TRUE, owner |-> "",
           port |-> TcpPortStart, cmd |-> <<"other">>,
           ancestors |-> <<<<>>, <<"init">>>>]}

RebindNext ==
    \/ \E pid \in Pids, name \in Names : MonitorProcess(pid, name)
    \/ \E t \in tasks : WatcherRun(t)
    \/ \E pid \in Pids : ProcessExit(pid)
    \/ \E pid \in Pids, kind \in RebindKinds : ExternalSpawn(pid, kind)
    \/ MatchAndUpdateInstances
    \/ Respond

RebindSpec == ClaimInit /\ [][RebindNext]_vars

\* --------------------------------------------------- creation under a name

\* Every operation that creates an instance under a caller-chosen name; the
\* children are spawned with PID 1, the external process runs with PID 2.
CreateNext ==
    \/ \E tid \in DOMAIN templates, name \in Names, given \in VarChoices,
          p \in {0} \cup (FreePids(procs) \ {2}) : StartProcess(tid, name, given, p)
    \/ \E pid \in Pids, name \in Names : MonitorProcess(pid, name)
    \/ \E pid \in Pids, name \in Names : DiscoverAndImportProcess(pid, name)
    \/ \E name \in Names : DiscoverAndImportProcessOnPort(TcpPortStart, name)
    \/ \E name \in Names : handleStop(name, TRUE)
    \/ \E kind \in ExternalKinds : ExternalSpawn(2, kind)
    \/ Respond

CreateSpec == ClaimInit /\ [][CreateNext]_vars

\* ------------------------------------------------- restart without template

\* handleConfig (POST /api/config): the client posts the state back with
\* another template table; every other part of the state is as it was.
handleConfig(tmpls) ==
    /\ Idle
    /\ templates' = tmpls
    /\ last' = NoLast
    /\ UNCHANGED <<types, counters, resources, instances, procs, unavail, tasks, allocLog>>

\* The template tables a client posts: none, or the one template in use.
PostedTemplates == {[t \in S |-> KnownTemplates[t]] : S \in {{}, {"job"}}}

RestartInit == Init /\ DOMAIN templates = {"job"}

RestartNext ==
    \/ \E tid \in DOMAIN templates, given \in VarChoices, p \in {0} \cup FreePids(procs) :
          StartProcess(tid, "a", given, p)
    \/ \E p \in {0} \cup FreePids(procs) : RestartProcess("a", p)
    \/ \E tmpls \in PostedTemplates : handleConfig(tmpls)
    \/ \E t \in tasks : ReaperRun(t)
    \/ \E pid \in Pids : ProcessExit(pid)
    \/ EnvChange(<<"tcpport", Itoa(TcpPortStart)>>)
    \/ Respond

RestartSpec == RestartInit /\ [][RestartNext]_vars

RangeStarts == {-1, 0, TcpPortStart}

CounterType(s, n) ==
    [name |-> "tcpport", check |-> TRUE, counter |-> TRUE, start |-> s, end |-> s + n - 1]

RangeValues(tps) == {<<"tcpport", Itoa(v)>> : v \in tps["tcpport"].start..tps["tcpport"].end}

\* One call of AllocateResource; the results of the auto-allocations are
\* kept in allocLog.
Allocate(rtype, req) ==
    /\ Idle
    /\ Len(allocLog) < MaxAllocs
    /\ LET a == AllocateResource(types, counters, unavail, rtype, req)
       IN /\ counters' = a.ctr
          /\ last' = [NoLast EXCEPT !.op = "alloc", !.type = rtype, !.req = req,
                                    !.err = a.err, !.value = a.value,
                                    !.cursor = counters[rtype]]
          /\ allocLog' = IF req = "" /\ types[rtype].counter
                         THEN Append(allocLog, [err |-> a.err, value |-> a.value])
                         ELSE allocLog
    /\ UNCHANGED <<types, templates, resources, instances, procs, unavail, tasks>>

AllocInit ==
    /\ \E s \in RangeStarts, n \in 1..MaxRange :
          types = [DefaultResourceTypes EXCEPT !["tcpport"] = CounterType(s, n)]
    /\ unavail \in SUBSET RangeValues(types)
    /\ templates = [t \in {} |-> 0]
    /\ counters = [t \in TypeNames |-> 0]
    /\ resources = {}
    /\ instances = [n \in {} |-> 0]
    /\ procs = [p \in Pids |-> NoProc]
    /\ tasks = {}
    /\ last = NoLast
    /\ allocLog = <<>>

AllocNext ==
    \/ \E rtype \in TypeNames, req \in {"", Itoa(TcpPortStart), "/d"} : Allocate(rtype, req)
    \/ Respond

AllocSpec == AllocInit /\ [][AllocNext]_vars

\* ---------------------------------------------------------- ReadProcessInfo

\* What a read of one file or link under /proc/[pid] gives.
Unreadable == [ok |-> FALSE, data |-> <<>>]
Readable(d) == [ok |-> TRUE, data |-> d]

\* /proc/[pid] of a PID that names no process.
NoEntry ==
    [exists |-> FALSE, stat |-> Unreadable, cmdline |-> Unreadable, exe |-> Unreadable,
     cwd |-> Unreadable, environ |-> Unreadable, ports |-> Unreadable]

\* The directories /proc may hold for a process: stat is "pid (name) state
\* ppid ..."; cmdline is a sequence of arguments; environ a sequence of
\* entries, each a <<key, value>> pair or text without "=".
ProcEntries ==
    {NoEntry} \cup
    [exists : {TRUE},
     stat : {Unreadable, Readable([name |-> "run", ppid |-> 1])},
     cmdline : {Unreadable, Readable(<<>>), Readable(<<"run", "3000">>)},
     exe : {Unreadable, Readable("/bin/run")},
     cwd : {Unreadable, Readable("/srv")},
     environ : {Unreadable, Readable(<<<<"HOME", "/root">>, <<"junk">>>>)},
     ports : {Unreadable, Readable(<<>>), Readable(<<TcpPortStart>>)}]

\* The environment map: the entries of the form key=value.
ParseEnviron(data) ==
    LET pairs == {i \in DOMAIN data : Len(data[i]) = 2} IN
    [k \in {data[i][1] : i \in pairs} |->
        data[CHOOSE i \in pairs : data[i][1] = k /\ \A j \in pairs : data[j][1] = k => j <= i][2]]

\* The ProcessInfo with only the PID and an empty environment map.
EmptyInfo(pid) ==
    [pid |-> pid, ppid |-> 0, name |-> "", cmdline |-> <<>>, exe |-> "", cwd |-> "",
     environ |-> NoVars, ports |-> <<>>]

\* ReadProcessInfo giving up when the command line cannot be read.
ReadProcessInfoStrict(e, pid) ==
    IF ~e.exists THEN [err |-> "NotFound", info |-> <<>>]
    ELSE IF ~e.stat.ok THEN [err |-> "StatUnreadable", info |-> <<>>]
    ELSE IF ~e.cmdline.ok THEN [err |-> "CmdlineUnreadable", info |-> <<>>]
    ELSE [err |-> "none",
          info |-> [EmptyInfo(pid) EXCEPT
                      !.name = e.stat.data.name,
                      !.ppid = e.stat.data.ppid,
                      !.cmdline = e.cmdline.data,
                      !.exe = IF e.exe.ok THEN e.exe.data ELSE @,
                      !.cwd = IF e.cwd.ok THEN e.cwd.data ELSE @,
                      !.environ = IF e.environ.ok THEN ParseEnviron(e.environ.data) ELSE @,
                      !.ports = IF e.ports.ok THEN e.ports.data ELSE @]]

\* ReadProcessInfo on the directory e of /proc/[pid].
ReadProcessInfo(e, pid) ==
    IF ~e.exists THEN [err |-> "NotFound", info |-> <<>>]
    ELSE IF ~e.stat.ok THEN [err |-> "StatUnreadable", info |-> <<>>]
    ELSE [err |-> "none",
          info |-> [EmptyInfo(pid) EXCEPT
                      !.name = e.stat.data.name,
                      !.ppid = e.stat.data.ppid,
                      !.cmdline = IF e.cmdline.ok THEN e.cmdline.data ELSE @,
                      !.exe = IF e.exe.ok THEN e.exe.data ELSE @,
                      !.cwd = IF e.cwd.ok THEN e.cwd.data ELSE @,
                      !.environ = IF e.environ.ok THEN ParseEnviron(e.environ.data) ELSE @,
                      !.ports = IF e.ports.ok THEN e.ports.data ELSE @]]

\* One call of ReadProcessInfo; procs holds the /proc directory of each PID.
ReadProcess(pid) ==
    /\ Idle
    /\ LET r == ReadProcessInfo(procs[pid], pid)
       IN last' = [NoLast EXCEPT !.op = "read", !.prePid = pid, !.err = r.err,
                                 !.info = r.info]
    /\ UNCHANGED <<types, templates, counters, resources, instances, procs, unavail,
                   tasks, allocLog>>

ReadInit ==
    /\ types = DefaultResourceTypes
    /\ templates = [t \in {} |-> 0]
    /\ counters = [t \in TypeNames |-> 0]
    /\ resources = {}
    /\ instances = [n \in {} |-> 0]
    /\ \E e \in ProcEntries : procs = [p \in Pids |-> IF p = 1 THEN e ELSE NoEntry]
    /\ unavail = {}
    /\ tasks = {}
    /\ last = NoLast
    /\ allocLog = <<>>

ReadNext ==
    \/ \E pid \in Pids : ReadProcess(pid)
    \/ Respond

ReadSpec == ReadInit /\ [][ReadNext]_vars


\* ------------------------------------- GetParentChain / FindLaunchScript
\* The chain stops growing once it holds more than ChainLimit elements.
ChainLimit == 100

ShellNames == {"sh", "bash", "zsh", "fish", "dash", "ksh", "tcsh", "csh"}

IsShell(name) == name \in ShellNames

\* filepath.Base on the executable paths of the modelled programs; the base
\* of the empty path is ".".
Base(path) ==
    CASE path = "" -> "."
      [] path = "/bin/bash" -> "bash"
      [] path = "/bin/run" -> "run"
      [] path = "/sbin/init" -> "init"
      [] path = "/usr/bin/sh" -> "sh"

\* The programs a process of the table may run: a shell, a plain program,
\* systemd, a program whose executable is a shell under another name, and a
\* program whose executable link cannot be read.
Programs ==
    {[name |-> "bash", exe |-> Readable("/bin/bash")],
     [name |-> "run", exe |-> Readable("/bin/run")],
     [name |-> "systemd", exe |-> Readable("/sbin/init")],
     [name |-> "run", exe |-> Readable("/usr/bin/sh")],
     [name |-> "run", exe |-> Unreadable]}

\* /proc/[pid] of a process running prog whose stat file names parent ppid.
ChainEntry(prog, ppid) ==
    [exists |-> TRUE, stat |-> Readable([name |-> prog.name, ppid |-> ppid]),
     cmdline |-> Readable(<<prog.name>>), exe |-> prog.exe, cwd |-> Unreadable,
     environ |-> Unreadable, ports |-> Unreadable]

\* /proc/[pid] of a process whose stat file cannot be read.
StatUnreadable == [ChainEntry([name |-> "run", exe |-> Unreadable], 0) EXCEPT !.stat = Unreadable]

ChainPids == 1 .. 3

\* Every process table over ChainPids, the parent links unconstrained (a
\* link may close a cycle, or name a PID that has no entry).
SmallTables ==
    [ChainPids -> {NoEntry, StatUnreadable}
                  \cup {ChainEntry(prog, ppid) : prog \in Programs, ppid \in 0 .. 3}]

\* A line of n processes, each the child of the one before it; the first is
\* the child of root (0 for none).
DeepTable(n, root) ==
    [p \in 1 .. n |->
        ChainEntry([name |-> "run", exe |-> Readable("/bin/run")],
                   IF p = 1 THEN root ELSE p - 1)]

\* Lines around the limit, ending at PID 1 or closed into a cycle.
DeepTables ==
    {DeepTable(n, root) : n \in ChainLimit .. ChainLimit + 2, root \in {0}}
    \cup {DeepTable(ChainLimit + 2, ChainLimit + 2)}

\* /proc/[pid] in the table tbl.
Entry(tbl, pid) == IF pid \in DOMAIN tbl THEN tbl[pid] ELSE NoEntry

\* A walk that never takes a PID for visited.
RevisitedNever(seen, pid) == FALSE

\* seen[currentPID]
Revisited(seen, pid) == pid \in seen

\* The walk before its first iteration: currentPID, seen and chain of
\* GetParentChain; done once the loop has been left.
WalkFrom(pid) == [current |-> pid, seen |-> {}, chain |-> <<>>, done |-> FALSE]

\* The rest of an iteration once info has been read and appended.
WalkOn(w, info) ==
    IF w.current = 1 \/ info.ppid = 0 THEN [w EXCEPT !.done = TRUE]
    ELSE IF Len(w.chain) > ChainLimit THEN [w EXCEPT !.current = info.ppid, !.done = TRUE]
    ELSE [w EXCEPT !.current = info.ppid]

\* The rest of an iteration once ReadProcessInfo has returned r.
WalkRead(w, r) ==
    IF r.err # "none" THEN [w EXCEPT !.done = TRUE]
    ELSE WalkOn([w EXCEPT !.chain = Append(@, r.info)], r.info)

\* One pass through the loop of GetParentChain: its condition, then its body.
WalkStep(tbl, w) ==
    IF w.done THEN w
    ELSE IF ~(w.current > 0 /\ ~Revisited(w.seen, w.current)) THEN [w EXCEPT !.done = TRUE]
    ELSE WalkRead([w EXCEPT !.seen = @ \cup {w.current}],
                  ReadProcessInfo(Entry(tbl, w.current), w.current))

RECURSIVE WalkSteps(_, _, _)
\* The second half of n passes, after the first half has led to h.
WalkSecondHalf(tbl, h, n) == IF h.done THEN h ELSE WalkSteps(tbl, h, n - (n \div 2))

\* n passes through the loop, taken as two halves.
WalkSteps(tbl, w, n) ==
    IF n = 0 THEN w
    ELSE IF n = 1 THEN WalkStep(tbl, w)
    ELSE WalkSecondHalf(tbl, WalkSteps(tbl, w, n \div 2), n)

\* The walk of GetParentChain(pid) after ChainLimit + 2 passes; its chain is
\* what GetParentChain returns if the loop has been left by then.
ParentWalk(tbl, pid) == WalkSteps(tbl, WalkFrom(pid), ChainLimit + 2)

GetParentChain(tbl, pid) == ParentWalk(tbl, pid).chain

\* The first loop of FindLaunchScript: the positions whose next element is a
\* shell by name or by executable.
ShellChildren(chain) ==
    {i \in 1 .. Len(chain) - 1 :
        IsShell(chain[i + 1].name) \/ IsShell(Base(chain[i + 1].exe))}

\* The second loop: the positions that are neither PID 1 nor named systemd.
Fallbacks(chain) ==
    {i \in 1 .. Len(chain) : chain[i].pid # 1 /\ chain[i].name # "systemd"}

Least(S) == CHOOSE i \in S : \A j \in S : i <= j
Greatest(S) == CHOOSE i \in S : \A j \in S : j <= i

\* FindLaunchScript looking at the reported name of the parent only.
FindLaunchScriptByName(chain) ==
    LET named == {i \in 1 .. Len(chain) - 1 : IsShell(chain[i + 1].name)} IN
    IF named # {} THEN Least(named)
    ELSE IF Fallbacks(chain) # {} THEN Greatest(Fallbacks(chain))
    ELSE 0

\* The position in the chain of the element FindLaunchScript returns; 0 for nil.
FindLaunchScript(chain) ==
    IF ShellChildren(chain) # {} THEN Least(ShellChildren(chain))
    ELSE IF Fallbacks(chain) # {} THEN Greatest(Fallbacks(chain))
    ELSE 0

\* GetParentChain(pid) followed by FindLaunchScript on its result; procs
\* holds the /proc directory of each PID.
WalkChain(pid) ==
    /\ Idle
    /\ last' = [NoLast EXCEPT !.op = "chain", !.prePid = pid,
                              !.err = IF ParentWalk(procs, pid).done THEN "none"
                                      ELSE "Walking",
                              !.info = GetParentChain(procs, pid),
                              !.launch = FindLaunchScript(GetParentChain(procs, pid))]
    /\ UNCHANGED <<types, templates, counters, resources, instances, procs, unavail,
                   tasks, allocLog>>

ChainInit ==
    /\ types = DefaultResourceTypes
    /\ templates = [t \in {} |-> 0]
    /\ counters = [t \in TypeNames |-> 0]
    /\ resources = {}
    /\ instances = [n \in {} |-> 0]
    /\ procs \in SmallTables \cup DeepTables
    /\ unavail = {}
    /\ tasks = {}
    /\ last = NoLast
    /\ allocLog = <<>>

ChainNext ==
    \/ \E pid \in DOMAIN procs : WalkChain(pid)
    \/ Respond

ChainSpec == ChainInit /\ [][ChainNext]_vars

\* ------------------------------------------- GetProcessesListeningOnPort
\* strconv.ParseInt(portHex, 16, 64) on a sequence of hexadecimal digits,
\* each given by its value; a digit outside 0 .. 15 is a parse error (-1).
RECURSIVE ParseHex(_)
ParseHex(digits) ==
    IF digits = <<>> THEN -1
    ELSE IF digits[Len(digits)] \notin 0 .. 15 THEN -1
    ELSE IF Len(digits) = 1 THEN digits[1]
    ELSE IF ParseHex(SubSeq(digits, 1, Len(digits) - 1)) = -1 THEN -1
    ELSE 16 * ParseHex(SubSeq(digits, 1, Len(digits) - 1)) + digits[Len(digits)]

\* The socket inodes of the modelled sockets; 0 is the inode of a row whose
\* socket belongs to no process any more (TIME_WAIT).
Inodes == {10, 11}

\* Rows of /proc/net/tcp: the local address as its parts around ":" (the
\* port in hexadecimal: 0BB8 is 3000, 0BB9 is 3001, 0BBG is no number), the
\* connection state (0A is LISTEN, 01 ESTABLISHED, 06 TIME_WAIT) and the inode.
TcpRows ==
    [local : {<<"00000000", <<0, 11, 11, 8>>>>, <<"00000000", <<0, 11, 11, 9>>>>},
     st    : {"0A", "01"},
     inode : Inodes]
    \cup {[local |-> <<"00000000", <<0, 11, 11, 8>>>>, st |-> "06", inode |-> 0],
          [local |-> <<"00000000", <<0, 11, 11, 16>>>>, st |-> "0A", inode |-> 10],
          [local |-> <<"00000000">>, st |-> "0A", inode |-> 10]}

\* The tables of at most two rows.
TcpTables == {<<>>} \cup {<<r>> : r \in TcpRows} \cup {<<r, q>> : r, q \in TcpRows}

\* /proc/[pid]/fd of each process: the socket inodes its descriptors link
\* to, or a directory that cannot be read.
FdDirs == [Pids -> {Unreadable} \cup {Readable(S) : S \in SUBSET Inodes}]

\* The processes findProcessByInode may return for an inode: those with a
\* readable fd directory holding a link to the socket. It returns the first
\* one in the order in which /proc lists its entries.
Holders(fd, inode) == {p \in DOMAIN fd : fd[p].ok /\ inode \in fd[p].data}

\* The rows GetProcessesListeningOnPort looks up: a local address of two
\* parts whose port parses and equals port.
RowsOnPort(tcp, port) ==
    {i \in DOMAIN tcp : /\ Len(tcp[i].local) = 2
                        /\ ParseHex(tcp[i].local[2]) # -1
                        /\ ParseHex(tcp[i].local[2]) = port}

\* The rows of the port for which findProcessByInode finds a process.
RowsFound(proc, port) ==
    {i \in RowsOnPort(proc.tcp, port) : Holders(proc.fd, proc.tcp[i].inode) # {}}

\* GetProcessesListeningOnPort(port); procs holds /proc: net/tcp and the fd
\* directory of each PID.
GetProcessesListeningOnPort(port) ==
    /\ Idle
    /\ \E found \in [RowsFound(procs, port) -> Pids] :
          /\ \A i \in RowsFound(procs, port) :
                 found[i] \in Holders(procs.fd, procs.tcp[i].inode)
          /\ last' = [NoLast EXCEPT !.op = "onport", !.port = port,
                                    !.pids = {found[i] : i \in RowsFound(procs, port)}]
    /\ UNCHANGED <<types, templates, counters, resources, instances, procs, unavail,
                   tasks, allocLog>>

PortInit ==
    /\ types = DefaultResourceTypes
    /\ templates = [t \in {} |-> 0]
    /\ counters = [t \in TypeNames |-> 0]
    /\ resources = {}
    /\ instances = [n \in {} |-> 0]
    /\ procs \in [tcp : TcpTables, fd : FdDirs]
    /\ unavail = {}
    /\ tasks = {}
    /\ last = NoLast
    /\ allocLog = <<>>

PortNext ==
    \/ \E port \in {TcpPortStart, TcpPortStart + 1} : GetProcessesListeningOnPort(port)
    \/ Respond

PortSpec == PortInit /\ [][PortNext]_vars

\* ------------------------------------ concurrent requests in server mode

\* net/http serves every request in a goroutine of its own and no handler
\* takes a lock: a POST start is a goroutine running StartProcess statement
\* by statement. Its local variables are kept in its task record.
Starter(name, tid, fv) ==
    [kind |-> "start", name |-> name, pid |-> 0, exited |-> FALSE, tid |-> tid,
     pc |-> "alloc", idx |-> 1, vars |-> fv, ires |-> NoVars, current |-> 0,
     value |-> "", id |-> 0]

Starters == {t \in tasks : t.kind = "start"}

\* The request arrives: the duplicate-name check, inst and finalVars.
StartRequest(tid, name, given) ==
    /\ \A t \in Starters : t.name # name
    /\ name \notin DOMAIN instances
    /\ tasks' = tasks \cup {Starter(name, tid, MergeVars(templates[tid].vars, given))}
    /\ UNCHANGED <<types, templates, counters, resources, instances, procs, unavail,
                   last, allocLog>>

\* return inst, err: the resources claimed for the name are released and
\* the record is dropped.
StartFails(t) ==
    /\ resources' = ReleaseResources(resources, t.name)
    /\ tasks' = tasks \ {t}

\* AllocateResource up to the read of the counter (auto-allocation), or as
\* a whole (explicit value: no shared variable is written).
AllocBegin(t) ==
    /\ t \in Starters /\ t.pc = "alloc"
    /\ LET rtype == templates[t.tid].resources[t.idx]
           req == Get(t.vars, rtype)
           rt == types[rtype]
       IN IF rtype \notin DOMAIN types
          THEN StartFails(t)
          ELSE IF rt.counter /\ req = ""
          THEN /\ tasks' = (tasks \ {t}) \cup
                      {[t EXCEPT !.pc = "probe",
                                 !.current = IF counters[rtype] = 0 THEN rt.start
                                             ELSE counters[rtype]]}
               /\ UNCHANGED resources
          ELSE IF req = "" \/ ~CheckResource(rt, req, unavail)
          THEN StartFails(t)
          ELSE /\ tasks' = (tasks \ {t}) \cup {[t EXCEPT !.pc = "claim", !.value = req]}
               /\ UNCHANGED resources
    /\ UNCHANGED <<types, templates, counters, instances, procs, unavail, last, allocLog>>

\* The probe loop from the value read, and the write of the counter.
AllocProbe(t) ==
    /\ t \in Starters /\ t.pc = "probe"
    /\ LET rtype == templates[t.tid].resources[t.idx]
           rt == types[rtype]
           v == Probe(rt, t.current, unavail)
       IN IF v > rt.end
          THEN StartFails(t) /\ UNCHANGED counters
          ELSE /\ counters' = [counters EXCEPT ![rtype] = v + 1]
               /\ tasks' = (tasks \ {t}) \cup {[t EXCEPT !.pc = "claim", !.value = Itoa(v)]}
               /\ UNCHANGED resources
    /\ UNCHANGED <<types, templates, instances, procs, unavail, last, allocLog>>

\* inst.Resources[rtype] = value; state.ClaimResource; finalVars[rtype].
AllocClaim(t) ==
    /\ t \in Starters /\ t.pc = "claim"
    /\ LET rtype == templates[t.tid].resources[t.idx]
           done == t.idx = Len(templates[t.tid].resources)
       IN /\ resources' = ClaimResource(resources, rtype, t.value, t.name)
          /\ tasks' = (tasks \ {t}) \cup
                 {[t EXCEPT !.pc = IF done THEN "spawn" ELSE "alloc",
                            !.idx = IF done THEN @ ELSE @ + 1,
                            !.ires = (rtype :> t.value) @@ @,
                            !.vars = (rtype :> t.value) @@ @,
                            !.value = ""]}
    /\ UNCHANGED <<types, templates, counters, instances, procs, unavail, last, allocLog>>

\* Interpolation, proc.Start and state.Instances[name] = inst; p = 0 stands
\* for a failing start.
StartSpawn(t, p) ==
    /\ t \in Starters /\ t.pc = "spawn"
    /\ LET command == Fields(SubstVars(templates[t.tid].command, t.vars)) IN
       IF p = 0 \/ command = <<>>
       THEN StartFails(t) /\ UNCHANGED <<instances, procs>>
       ELSE /\ instances' = (t.name :>
                   [NewInstance(t.name, t.tid) EXCEPT
                       !.resources = t.ires, !.status = "running", !.command = command,
                       !.pid = p, !.managed = TRUE]) @@ instances
            /\ procs' = Spawn(procs, p, t.name, command)
            /\ tasks' = tasks \ {t}
            /\ UNCHANGED resources
    /\ UNCHANGED <<types, templates, counters, unavail, last, allocLog>>

\* Two clients, one per name, post start requests for the web template
\* with nothing but the data directory given; ports come and go around
\* them.
ConcInit == Init /\ DOMAIN templates = {"web"}

ConcNext ==
    \/ \E name \in Names : StartRequest("web", name, [datadir |-> "/d"])
    \/ \E t \in tasks : AllocBegin(t)
    \/ \E t \in tasks : AllocProbe(t)
    \/ \E t \in tasks : AllocClaim(t)
    \/ \E t \in tasks, p \in {0} \cup FreePids(procs) : StartSpawn(t, p)
    \/ \E name \in Names : handleStop(name, TRUE)
    \/ EnvChange(<<"tcpport", Itoa(TcpPortStart)>>)
    \/ Respond

ConcSpec == ConcInit /\ [][ConcNext]_vars

\* The requests in flight at the same time.
RequestIds == {1, 2}

\* Request id arrives, for whatever name: the duplicate-name check looks at
\* the instance table only, so it passes while an earlier request for the
\* same name has not stored its instance yet.
StartRequestBy(id, tid, name, given) ==
    /\ \A t \in Starters : t.id # id
    /\ name \notin DOMAIN instances
    /\ tasks' = tasks \cup
           {[Starter(name, tid, MergeVars(templates[tid].vars, given)) EXCEPT !.id = id]}
    /\ UNCHANGED <<types, templates, counters, resources, instances, procs, unavail,
                   last, allocLog>>

\* Two clients post start requests for the web template under names of
\* their choice, the same one included.
SameNameNext ==
    \/ \E id \in RequestIds, name \in Names :
          StartRequestBy(id, "web", name, [datadir |-> "/d"])
    \/ \E t \in tasks : AllocBegin(t)
    \/ \E t \in tasks : AllocProbe(t)
    \/ \E t \in tasks : AllocClaim(t)
    \/ \E t \in tasks, p \in {0} \cup FreePids(procs) : StartSpawn(t, p)
    \/ \E name \in Names : handleStop(name, TRUE)
    \/ Respond

SameNameSpec == ConcInit /\ [][SameNameNext]_vars


\* ------------------------------------------- the lifetime of the watchers

\* Monitored processes, their watchers and Stop. The goroutines are
\* scheduled fairly: a watcher polls every two seconds for ever, so one
\* whose process is gone again and again does see it, and a response is
\* always taken. Nothing makes a process exit.
WatchNext ==
    \/ \E pid \in Pids, name \in Names : MonitorProcess(pid, name)
    \/ \E name \in Names, exits \in BOOLEAN : handleStop(name, exits)
    \/ \E t \in tasks : WatcherRun(t)
    \/ \E pid \in Pids : ProcessExit(pid)
    \/ \E pid \in Pids, kind \in ExternalKinds : ExternalSpawn(pid, kind)
    \/ Respond

WatchSpec ==
    /\ AdoptInit
    /\ [][WatchNext]_vars
    /\ WF_vars(Respond)
    /\ \A name \in Names, pid \in Pids : SF_vars(WatcherRun(Watcher(name, pid)))

\* ================================================================== claims

C2_RollbackAtomicity ==
    (last.op = "start" /\ last.step >= 1) =>
        /\ \A r \in resources : r.owner # last.name
        /\ \A i \in DOMAIN last.claimed :
              AllocateResource(types, counters, unavail,
                               last.claimed[i][1], last.claimed[i][2]).err = "none"

\* Start failed at the second declared resource after claiming the first.
C2_Witness ==
    last.op = "start" /\ last.step = 2 /\ Len(last.claimed) = 1 /\ last.err # "none"

\* C3 (restart safety): Restart of a stopped instance one of whose bound
\* values no longer passes its check fails, spawns nothing and leaves the
\* instance's resources map as it was.
C3_RestartSafety ==
    [][(/\ last'.op = "restart"
        /\ instances[last'.name].status = "stopped"
        /\ \E t \in DOMAIN instances[last'.name].resources :
              /\ t \in DOMAIN types
              /\ ~CheckResource(types[t], instances[last'.name].resources[t], unavail))
       => (/\ last'.err # "none"
           /\ procs' = procs
           /\ tasks' = tasks
           /\ instances'[last'.name].resources = instances[last'.name].resources)]_vars

\* A Restart was refused because a bound value is occupied.
C3_Witness ==
    /\ last.op = "restart" /\ last.err = "ResourceUnavailable"
    /\ instances[last.name].status = "stopped"

\* C4 (idempotent Stop): a Stop of an instance that has pid = 0 is a no-op
\* success that leaves it stopped, never an error.
C4_IdempotentStop ==
    (last.op = "stop" /\ last.err # "InstanceNotFound" /\ last.prePid = 0) =>
        (last.err = "none" /\ last.status = "stopped")

\* The text of the decimal number s (the inverse of Itoa on the ranges used).
Atoi(s) ==
    CHOOSE v \in UNION {(b - 1)..(b + MaxRange + 1) : b \in RangeStarts} : Itoa(v) = s

\* C5 (counter monotonic progress): the successive auto-allocations of a
\* counter type return strictly increasing values, and once one has failed
\* with RangeExhausted every later one fails too.
C5_CounterMonotonic ==
    \A i \in DOMAIN allocLog, j \in DOMAIN allocLog :
        i < j =>
            /\ allocLog[i].err = "RangeExhausted" => allocLog[j].err = "RangeExhausted"
            /\ (allocLog[i].err = "none" /\ allocLog[j].err = "none")
                  => Atoi(allocLog[i].value) < Atoi(allocLog[j].value)

\* C6 (auto-allocation): an auto-allocation returns the least free value v
\* with cursor <= v <= rangeEnd, where the cursor is rangeStart as long as no
\* allocation has set it, and sets the cursor to v + 1, or fails with
\* RangeExhausted when there is none; so with every value free the k-th
\* allocation returns rangeStart + k - 1 and the one after the last value
\* fails.
C6_AutoAllocLeast ==
    /\ (last.op = "alloc" /\ last.req = "" /\ last.type = "tcpport") =>
          LET rt == types[last.type]
              isSet == \E i \in 1..(Len(allocLog) - 1) : allocLog[i].err = "none"
              cur == IF isSet THEN last.cursor ELSE rt.start
              free == {v \in cur..rt.end : <<last.type, Itoa(v)>> \notin unavail}
          IN IF free = {}
             THEN last.err = "RangeExhausted" /\ counters[last.type] = last.cursor
             ELSE \E v \in free :
                     /\ \A w \in free : v <= w
                     /\ last.err = "none"
                     /\ last.value = Itoa(v)
                     /\ counters[last.type] = v + 1
    /\ (types["tcpport"].start = TcpPortStart /\ unavail = {}) =>
          \A k \in DOMAIN allocLog :
              IF k <= types["tcpport"].end - TcpPortStart + 1
              THEN allocLog[k] = [err |-> "none", value |-> Itoa(TcpPortStart + k - 1)]
              ELSE allocLog[k].err = "RangeExhausted"

\* C7 (explicit value unavailable): a Start whose first declared resource is
\* given an explicit value that fails its check returns ResourceUnavailable;
\* whenever Start returns ResourceUnavailable, no instance of that name is
\* running or starting and no Resource record owned by it exists.
C7_ExplicitUnavailable ==
    /\ (/\ last.op = "start" /\ last.err # "DuplicateInstanceName"
        /\ LET tmpl == templates[last.template]
               t == Head(tmpl.resources)
               v == Get(MergeVars(tmpl.vars, last.given), t)
           IN v # "" /\ ~CheckResource(types[t], v, unavail))
       => last.err = "ResourceUnavailable"
    /\ (last.op = "start" /\ last.err = "ResourceUnavailable") =>
          /\ last.name \in DOMAIN instances =>
                instances[last.name].status \notin {"running", "starting"}
          /\ \A r \in resources : r.owner # last.name

\* Start was refused for an occupied explicit value.
C7_Witness ==
    /\ last.op = "start" /\ last.err = "ResourceUnavailable"
    /\ Get(last.given, "tcpport") # ""

\* C8 (Stop kills): when Stop returns for an instance spawned from a template
\* and still bound to its process, Stop has succeeded, the process the
\* instance was bound to is not alive, and the instance is stopped with
\* pid = 0.
C8_StopKills ==
    (last.op = "stop" /\ last.prePid # 0 /\ last.template \in DOMAIN KnownTemplates) =>
        /\ last.err = "none"
        /\ last.status = "stopped"
        /\ last.pid = 0
        /\ ~procs[last.prePid].alive

\* Stop had to escalate to SIGKILL for a spawned process that ignored SIGTERM.
C8_Witness ==
    /\ last.op = "stop" /\ last.err = "none" /\ last.prePid # 0
    /\ last.template \in DOMAIN KnownTemplates
    /\ \E s \in last.signals : s.sig = "KILL" /\ s.delivered

\* C9 (failed Start is kept): a Start that fails after the duplicate-name
\* check leaves an instance of that name in the table, in status error with
\* the message attached and no resources held.
C9_FailedStartKept ==
    (last.op = "start" /\ last.err \notin {"none", "DuplicateInstanceName"}) =>
        /\ last.name \in DOMAIN instances
        /\ instances[last.name].status = "error"
        /\ instances[last.name].error # ""
        /\ \A r \in resources : r.owner # last.name

\* C10 (unmanaged instances are never signalled): Stop delivers no
\* termination signal for an instance whose managed flag is false.
C10_NoSignalToUnmanaged ==
    (last.op = "stop" /\ ~last.managed) => \A s \in last.signals : ~s.delivered

\* C11 (template-independent restart): Restart never changes the template
\* table, the instance's command or its resources map; when it spawns, it
\* spawns the stored command; and whenever the instance is stopped, its bound
\* values pass their checks and its command is not empty, Restart gets as
\* far as the spawn, whether or not the instance's template still exists.
C11_RestartWithoutTemplate ==
    [][last'.op = "restart" =>
          LET inst == instances[last'.name] IN
          /\ templates' = templates
          /\ instances'[last'.name].command = inst.command
          /\ instances'[last'.name].resources = inst.resources
          /\ last'.err = "none" => last'.spawned = inst.command
          /\ (/\ inst.status = "stopped"
              /\ inst.command # <<>>
              /\ \A t \in DOMAIN inst.resources :
                    t \in DOMAIN types /\ CheckResource(types[t], inst.resources[t], unavail))
             => last'.err \in {"none", "SpawnFailed"}]_vars

\* Restart succeeded for an instance whose template is gone.
C11_Witness ==
    /\ last.op = "restart" /\ last.err = "none"
    /\ last.template \notin DOMAIN templates
    /\ last.spawned = instances[last.name].command

\* C12 (duplicate name): Start, Monitor and DiscoverAndImport (by PID or by
\* port) called with the name of an existing instance fail, spawn nothing
\* and leave the instance table, the resource table and the counter cursors
\* unchanged.
C12_DuplicateNameRejected ==
    [][(/\ last'.op \in {"start", "monitor", "discover", "discover-port"}
        /\ last'.name \in DOMAIN instances)
       => (/\ last'.err = "DuplicateInstanceName"
           /\ instances' = instances
           /\ resources' = resources
           /\ counters' = counters
           /\ procs' = procs
           /\ tasks' = tasks)]_vars

\* A discovery by PID was refused for the name of an instance that holds a
\* resource.
C12_Witness ==
    /\ last.op = "discover" /\ last.err = "DuplicateInstanceName"
    /\ last.name \in DOMAIN instances
    /\ \E r \in resources : r.owner = last.name

C14_ResourcesOwned ==
    \A n \in DOMAIN instances :
        instances[n].status = "running" =>
            \A t \in DOMAIN instances[n].resources :
                [type |-> t, value |-> instances[n].resources[t], owner |-> n]
                    \in resources

\* C15 (reads reconcile): in the table a read returns, an instance is in
\* status running if and only if its pid is not 0 and the process with that
\* pid is alive.
C15_ReadReconciles ==
    last.op = "list" =>
        \A n \in DOMAIN instances :
            instances[n].status = "running" <=>
                /\ instances[n].pid # 0
                /\ procs[instances[n].pid].alive

\* A read has turned a stale running record into a stopped one, next to a
\* record that stays running.
C15_Witness ==
    /\ last.op = "list" /\ last.flipped # {}
    /\ \E n \in DOMAIN instances : instances[n].status = "running"

\* The changes of status the lifecycle allows.
AllowedTransitions ==
    {<<"starting", "running">>, <<"running", "stopping">>, <<"stopping", "stopped">>,
     <<"starting", "error">>, <<"stopping", "error">>, <<"stopped", "starting">>}

\* C16 (status transitions): every change of an instance's status, between
\* two states or inside one handler, is an allowed transition.
C16_StatusTransitions ==
    [][/\ \A i \in 1..(Len(last'.trail) - 1) :
              <<last'.trail[i], last'.trail[i + 1]>> \in AllowedTransitions
       /\ \A n \in DOMAIN instances \cap DOMAIN instances' :
              \/ instances'[n].status = instances[n].status
              \/ <<instances[n].status, instances'[n].status>> \in AllowedTransitions]_vars

\* C17 (managed reflects the probe): Monitor of a live process under a free
\* name creates an instance, whose managed flag is true when the process can
\* be signalled and false when it cannot.
C17_ManagedReflectsProbe ==
    (/\ last.op = "monitor" /\ last.err # "DuplicateInstanceName"
     /\ procs[last.prePid].alive /\ procs[last.prePid].cmd # <<>>) =>
        /\ last.name \in DOMAIN instances
        /\ instances[last.name].pid = last.prePid
        /\ instances[last.name].managed = procs[last.prePid].perm

\* C18 (resource lifecycle): no Resource record is owned by an instance in
\* status stopped or by a name absent from the instance table.
C18_NoRecordOfStopped ==
    \A r \in resources :
        /\ r.owner \in DOMAIN instances
        /\ instances[r.owner].status # "stopped"

\* C19 (explicit allocation): AllocateResource with a non-empty requested
\* value returns that value when its check passes and fails with
\* ResourceUnavailable otherwise, and leaves the counter as it was, also for
\* counter types.
C19_ExplicitAllocation ==
    (last.op = "alloc" /\ last.req # "") =>
        /\ IF CheckResource(types[last.type], last.req, unavail)
           THEN last.err = "none" /\ last.value = last.req
           ELSE last.err = "ResourceUnavailable" /\ last.value = ""
        /\ counters[last.type] = last.cursor

\* An explicit value is granted for a counter type whose cursor has already
\* moved.
C19_Witness ==
    /\ last.op = "alloc" /\ last.req # "" /\ last.err = "none"
    /\ types[last.type].counter /\ last.cursor # 0
    /\ last.value = last.req

\* The fields of /proc/[pid] read after stat, and what each is when empty.
OtherFields == {"cmdline", "exe", "cwd", "environ", "ports"}

\* C20 (introspection): ReadProcessInfo of a PID without a /proc directory
\* fails with NotFound and returns no ProcessInfo; when the directory and its
\* stat file can be read it never fails, and every other field that cannot
\* be read is empty in the ProcessInfo, the readable ones carrying what was
\* read.
C20_ReadProcessInfo ==
    last.op = "read" =>
        LET e == procs[last.prePid] IN
        /\ ~e.exists => last.err = "NotFound" /\ last.info = <<>>
        /\ (e.exists /\ ~e.stat.ok) => last.err # "none" /\ last.info = <<>>
        /\ (e.exists /\ e.stat.ok) =>
              /\ last.err = "none"
              /\ last.info.pid = last.prePid
              /\ \A f \in OtherFields :
                    IF e[f].ok
                    THEN last.info[f] = IF f = "environ" THEN ParseEnviron(e[f].data)
                                        ELSE e[f].data
                    ELSE last.info[f] = EmptyInfo(last.prePid)[f]

\* stat was read, the command line and the ports could not be, and the
\* working directory could.
C20_Witness ==
    /\ last.op = "read" /\ last.err = "none"
    /\ ~procs[last.prePid].cmdline.ok /\ ~procs[last.prePid].ports.ok
    /\ procs[last.prePid].cwd.ok /\ last.info.cwd # ""

\* C21 (concurrent starts): requests that auto-allocate the same counter
\* type never leave two instances holding the same value.
C21_NoDoubleAllocation ==
    \A n1 \in DOMAIN instances, n2 \in DOMAIN instances :
        (/\ n1 # n2
         /\ "tcpport" \in DOMAIN instances[n1].resources
         /\ "tcpport" \in DOMAIN instances[n2].resources) =>
            instances[n1].resources["tcpport"] # instances[n2].resources["tcpport"]

\* C22 (range exhaustion): an auto-allocation on a counter type fails with
\* RangeExhausted only when no value of the configured range passes its
\* check.
C22_ExhaustedOnlyWhenFull ==
    (/\ last.op = "alloc" /\ last.req = "" /\ types[last.type].counter
     /\ last.err = "RangeExhausted") =>
        \A v \in types[last.type].start..types[last.type].end :
            ~CheckResource(types[last.type], Itoa(v), unavail)

\* C23 (restart rollback): a Restart that fails because a bound resource
\* is unavailable or its type is gone leaves no Resource record of the
\* instance that was not there before the attempt.
C23_RestartRollback ==
    [][(last'.op = "restart"
          /\ last'.err \in {"ResourceUnavailable", "UnknownResourceType"}) =>
          \A r \in resources' : r.owner = last'.name => r \in resources]_vars

\* C24 (restart only from stopped): Restart of an instance in any status
\* but stopped returns an error, spawns nothing and leaves the instance
\* table, the Resource table and the counters as they were.
C24_RestartOnlyFromStopped ==
    [][(last'.op = "restart" /\ instances[last'.name].status # "stopped") =>
          /\ last'.err = "NotStopped"
          /\ last'.spawned = <<>>
          /\ UNCHANGED <<instances, resources, counters, procs, tasks>>]_vars

\* Restart was refused for an instance in status error.
C24_Witness ==
    /\ last.op = "restart" /\ last.err = "NotStopped"
    /\ instances[last.name].status = "error"

\* C25 (escalation order): when Stop runs on a bound instance, SIGTERM is
\* the first signal sent; SIGKILL is sent exactly when the process still
\* answers after the poll, and then as the last signal; the poll takes at
\* most 20 samples; and Stop returns.
C25_EscalationOrder ==
    (last.op = "stop" /\ last.prePid # 0) =>
        LET c == last.stop IN
        /\ c.sent[1] = "TERM"
        /\ \A i \in DOMAIN c.sent : c.sent[i] = "KILL" => i = Len(c.sent) /\ c.running
        /\ ~c.running => \A i \in DOMAIN c.sent : c.sent[i] # "KILL"
        /\ c.samples <= PollLimit
        /\ ~c.blocked

\* The process ignored SIGTERM through the whole poll and was then killed.
C25_Witness ==
    /\ last.op = "stop" /\ last.prePid # 0
    /\ last.stop.sent = <<"TERM", "KILL">> /\ last.stop.samples = PollLimit

\* C26 (reaper guard): the reaper of an exited child sets the instance of
\* its name to stopped with pid 0 when that instance exists and its pid is
\* the child's, and changes nothing otherwise.
C26_ReaperGuard ==
    [][last'.op = "reap" =>
          IF /\ last'.name \in DOMAIN instances
             /\ instances[last'.name].pid = last'.prePid
          THEN instances' = [instances EXCEPT ![last'.name].status = "stopped",
                                              ![last'.name].pid = 0]
          ELSE instances' = instances]_vars

\* The reaper of an earlier child ran after the instance had been restarted
\* with another PID, and left it alone.
C26_Witness ==
    /\ last.op = "reap" /\ last.flipped = {}
    /\ last.name \in DOMAIN instances
    /\ instances[last.name].status = "running"
    /\ instances[last.name].pid # last.prePid

\* C27 (supervision ends with the instance): once the instance a watcher
\* was started for is no longer in the table, the watcher eventually exits,
\* even if the process it watches stays alive.
C27_TasksEndWithInstance ==
    \A name \in Names, pid \in Pids :
        (Watcher(name, pid) \in tasks /\ name \notin DOMAIN instances)
            ~> (Watcher(name, pid) \notin tasks)

\* C28 (reconcile frame): a pass of MatchAndUpdateInstances leaves every
\* instance whose status is not stopped as it was.
C28_ReconcileOnlyStopped ==
    [][last'.op = "reconcile" =>
          \A n \in DOMAIN instances :
              instances[n].status # "stopped" => instances'[n] = instances[n]]_vars

\* C29 (both conditions): MatchAndUpdateInstances binds an instance to a
\* process only if the instance has resources, the process holds one of
\* them, and a command line of the process or of an ancestor contains the
\* instance's command or is contained in it.
C29_RebindNeedsBoth ==
    [][last'.op = "reconcile" =>
          \A i \in DOMAIN last'.binds :
              LET inst == instances[last'.binds[i][1]]
                  pr == procs[last'.binds[i][2]]
                  cmds == <<pr.cmd>> \o pr.ancestors
              IN /\ DOMAIN inst.resources # {}
                 /\ pr.port # 0
                 /\ \E t \in DOMAIN inst.resources :
                       t = "tcpport" /\ inst.resources[t] = Itoa(pr.port)
                 /\ \E k \in DOMAIN cmds :
                       Contains(cmds[k], inst.command) \/ Contains(inst.command, cmds[k])]_vars

\* A pass has bound an instance while a stopped instance with the same
\* command and no resources stayed stopped.
C29_Witness ==
    /\ last.op = "reconcile" /\ Len(last.binds) = 1
    /\ \E n \in DOMAIN instances :
          /\ instances[n].status = "stopped"
          /\ DOMAIN instances[n].resources = {}
          /\ instances[n].command = instances[last.binds[1][1]].command

\* C30 (no match on an empty command line): MatchAndUpdateInstances binds an
\* instance only when a non-empty command line of the process or of an
\* ancestor overlaps the instance's non-empty command.
C30_NoEmptyCommandMatch ==
    [][last'.op = "reconcile" =>
          \A i \in DOMAIN last'.binds :
              LET inst == instances[last'.binds[i][1]]
                  pr == procs[last'.binds[i][2]]
                  cmds == <<pr.cmd>> \o pr.ancestors
              IN \E k \in DOMAIN cmds :
                    /\ cmds[k] # <<>> /\ inst.command # <<>>
                    /\ Contains(cmds[k], inst.command) \/ Contains(inst.command, cmds[k])]_vars

\* C31: GetParentChain terminates on every parent-PID relation, cyclic ones
\* included (its loop is left within ChainLimit + 2 passes). Its result is empty only when the process itself cannot be
\* read; otherwise it starts with the process, each next element is the
\* parent of the one before it, no PID occurs twice, and the last element is
\* PID 1, has parent 0, has a parent that cannot be read or was already
\* visited, or is element ChainLimit + 1 (ChainLimit links from the start).
C31_ParentChain ==
    last.op = "chain" =>
        LET chain == last.info
            n == Len(chain)
            pids == {chain[i].pid : i \in 1 .. n}
        IN /\ last.err = "none"
           /\ n = 0 <=> ReadProcessInfo(Entry(procs, last.prePid), last.prePid).err # "none"
           /\ n > 0 => chain[1].pid = last.prePid
           /\ \A i \in 1 .. n - 1 : chain[i + 1].pid = chain[i].ppid
           /\ \A i, j \in 1 .. n : chain[i].pid = chain[j].pid => i = j
           /\ \A i \in 1 .. n :
                  chain[i] = ReadProcessInfo(Entry(procs, chain[i].pid), chain[i].pid).info
           /\ \A i \in 1 .. n - 1 : chain[i].pid # 1 /\ chain[i].ppid # 0
           /\ n > 0 =>
                  \/ chain[n].pid = 1
                  \/ chain[n].ppid = 0
                  \/ ReadProcessInfo(Entry(procs, chain[n].ppid), chain[n].ppid).err # "none"
                  \/ chain[n].ppid \in pids
                  \/ n = ChainLimit + 1
           /\ n <= ChainLimit + 1

\* A walk has stopped at the limit with a readable, unvisited parent ahead.
C31_Witness ==
    /\ last.op = "chain"
    /\ Len(last.info) = ChainLimit + 1
    /\ last.info[ChainLimit + 1].pid # 1
    /\ last.info[ChainLimit + 1].ppid \notin {last.info[i].pid : i \in 1 .. ChainLimit + 1}
    /\ last.info[ChainLimit + 1].ppid \in DOMAIN procs

\* C32: FindLaunchScript returns the first element of the chain whose next
\* element (its parent) is a shell by reported name or by the base name of
\* its executable; when no element has such a parent it returns the last
\* element that is neither PID 1 nor named systemd, and it returns none only
\* when the chain has no such element.
C32_LaunchScript ==
    last.op = "chain" =>
        LET chain == last.info
            n == Len(chain)
            k == last.launch
            ShellParent(i) ==
                /\ i < n
                /\ \/ chain[i + 1].name \in ShellNames
                   \/ Base(chain[i + 1].exe) \in ShellNames
            Outer(i) == chain[i].pid # 1 /\ chain[i].name # "systemd"
        IN /\ k \in 0 .. n
           /\ (\E i \in 1 .. n : ShellParent(i)) =>
                  k > 0 /\ ShellParent(k) /\ \A j \in 1 .. k - 1 : ~ShellParent(j)
           /\ (~\E i \in 1 .. n : ShellParent(i)) /\ (\E i \in 1 .. n : Outer(i)) =>
                  k > 0 /\ Outer(k) /\ \A j \in k + 1 .. n : ~Outer(j)
           /\ k = 0 <=> \A i \in 1 .. n : ~ShellParent(i) /\ ~Outer(i)

\* C32 as stated: without a shell parent in the chain, FindLaunchScript
\* returns the last element that is not the root process (PID 1), and none
\* only when every element is the root process.
C32_FallbackSkipsOnlyRoot ==
    last.op = "chain" =>
        LET chain == last.info
            n == Len(chain)
            k == last.launch
            ShellParent(i) ==
                /\ i < n
                /\ \/ chain[i + 1].name \in ShellNames
                   \/ Base(chain[i + 1].exe) \in ShellNames
        IN (\A i \in 1 .. n : ~ShellParent(i)) =>
               IF \E i \in 1 .. n : chain[i].pid # 1
               THEN k > 0 /\ chain[k].pid # 1 /\ \A j \in k + 1 .. n : chain[j].pid = 1
               ELSE k = 0

\* Without a shell in the chain, the fallback has passed over PID 1 and
\* over a process named systemd that is not PID 1.
C32_Witness ==
    /\ last.op = "chain"
    /\ Len(last.info) = 3
    /\ last.launch = 1
    /\ last.info[3].pid = 1
    /\ last.info[2].name = "systemd"
    /\ \A i \in 2 .. 3 : /\ last.info[i].name \notin ShellNames
                         /\ Base(last.info[i].exe) \notin ShellNames

\* C33: every PID GetProcessesListeningOnPort(port) returns holds a socket
\* whose row has local port = port and is in the LISTEN state.
C33_OnlyListeners ==
    last.op = "onport" =>
        \A p \in last.pids :
            \E i \in DOMAIN procs.tcp :
                /\ Len(procs.tcp[i].local) = 2
                /\ ParseHex(procs.tcp[i].local[2]) = last.port
                /\ procs.tcp[i].st = "0A"
                /\ procs.fd[p].ok
                /\ procs.tcp[i].inode \in procs.fd[p].data

\* C34: a Start that succeeds has allocated no resource type twice, and the
\* instance then owns exactly one record for each type in its resources map,
\* holding the value of the map, and no other record.
C34_NoSecondAllocation ==
    last.op = "start" /\ last.err = "none" =>
        /\ \A i, j \in DOMAIN last.claimed :
               last.claimed[i][1] = last.claimed[j][1] => i = j
        /\ {r \in resources : r.owner = last.name}
               = {[type |-> t, value |-> instances[last.name].resources[t],
                   owner |-> last.name] : t \in DOMAIN instances[last.name].resources}

\* C35: a Start that fails on a %counter placeholder (unknown type, type
\* that is no counter, exhausted range) or on an empty command returns the
\* instance in status error, leaves no resource claimed for the name, stores
\* no instance and spawns no process.
C35_PlaceholderFailure ==
    /\ last.op = "start"
    /\ last.err \in {"UnknownResourceType", "ValueRequired", "RangeExhausted", "EmptyCommand"}
    => /\ last.status = "error"
       /\ ~\E r \in resources : r.owner = last.name
       /\ last.name \notin DOMAIN instances
       /\ last.pid = 0
       /\ last.spawned = <<>>
       /\ ~\E p \in Pids : procs[p].alive /\ procs[p].owner = last.name

\* A Start has failed on a placeholder of a type that is no counter after
\* it had claimed a value for an earlier placeholder.
C35_Witness ==
    /\ last.op = "start"
    /\ last.err = "ValueRequired"
    /\ last.template = "dir"
    /\ Len(last.claimed) = 1

\* C36: when Start, Stop or Restart has changed the instances, the resource
\* records or the counter cursors, it has called Save after its last change,
\* so that the persisted state equals the state in memory when it returns.
C36_PersistOnMutation ==
    [][/\ last'.op \in {"start", "stop", "restart"}
       /\ <<instances', resources', counters'>> # <<instances, resources, counters>>
       => last'.saved]_vars

\* C37: no two instances of the table hold the same value for the same
\* resource type in their resources maps.
C37_NoSharedBinding ==
    \A n, m \in DOMAIN instances :
        n # m =>
            \A t \in DOMAIN instances[n].resources \cap DOMAIN instances[m].resources :
                instances[n].resources[t] # instances[m].resources[t]

\* C38: a Start that returns an error leaves every counter cursor as it was
\* before the call.
C38_FailedStartKeepsCursors ==
    [][last'.op = "start" /\ last'.err # "none" => counters' = counters]_vars

\* C39 (concurrent starts under one name): every process spawned for a name
\* and still running is the one the instance record of that name refers
\* to; there is never a second one.
C39_OneProcessPerName ==
    \A p \in Pids :
        procs[p].alive /\ procs[p].owner # "" =>
            /\ procs[p].owner \in DOMAIN instances
            /\ instances[procs[p].owner].pid = p

\* C40: a reaper runs once the child it was started for has exited; when it
\* changes the instance of its name, no process spawned for that name is
\* running under the child's PID, that is, it never flips a later
\* incarnation whose process has been given the PID again.
C40_NoStaleFlip ==
    [][last'.op = "reap" /\ instances' # instances =>
          ~(/\ procs[last'.prePid].alive
            /\ procs[last'.prePid].owner = last'.name)]_vars

====
